---------------------------- MODULE Spec2Model ----------------------------
(***************************************************************************)
(* A model of the ledger engine of src/main.py: Block (hashing, nonce      *)
(* search, wire records), Blockchain (mempool admission, mining, balance,  *)
(* chain validation, chain replacement) and the handlers that move blocks  *)
(* and chains between nodes (mine with push, receive_block, sync).         *)
(*                                                                         *)
(* Conventions.                                                            *)
(*  - Money is a Python float in the source.  An amount is modelled as the *)
(*    exact value c + n * 1e-9, written <<c, n>> (c whole coins, n a small *)
(*    count of 1e-9 units), so that the 1e-9 tolerance of the source is a  *)
(*    value of the model.  Rounding of floats is not modelled.             *)
(*  - SHA-256 is modelled as a collision-free function: the digest of a    *)
(*    block is the record of the fields that were hashed.  The leading hex *)
(*    characters of a digest are a number computed from it (Prefix).       *)
(*  - A datetime is an integer instant; its ISO-8601 text is [iso |-> t].  *)
(***************************************************************************)
EXTENDS Integers, Sequences, FiniteSets, TLC

(***************************************************************************)
(* The nodes.  Every node runs the same program; chain, mempool and nodes  *)
(* are the fields of its Blockchain object, clock its wall clock           *)
(* (datetime.now), and last the latest call with the fields it found and   *)
(* the response it gave.                                                   *)
(***************************************************************************)
VARIABLES chain, mempool, nodes, clock, last

vars == <<chain, mempool, nodes, clock, last>>

Node == {"n1", "n2"}

\* the fields of node n before a call
Before(n) == [chain |-> chain[n], mempool |-> mempool[n], nodes |-> nodes[n]]

Call(op, n, arg, ret) ==
    [op |-> op, node |-> n, arg |-> arg, ret |-> ret, pre |-> Before(n)]

(***************************************************************************)
(* Bounds of the model.                                                    *)
(***************************************************************************)
MaxChain == 3
MaxMempool == 2
MaxSkew == 1

(***************************************************************************)
(* Configuration of a node: Blockchain.__init__.  The deployed node uses   *)
(* the defaults (3, 50.0, 100); the model instantiates a short nonce       *)
(* search and a block capacity that a small mempool can exceed.            *)
(***************************************************************************)
difficulty == 1
block_capacity == 1
mining_reward == <<50, 0>>

(***************************************************************************)
(* Amounts.                                                                *)
(***************************************************************************)
Zero == <<0, 0>>
\* the tolerance 1e-9 of add_transaction and is_chain_valid
Epsilon == <<0, 1>>
AmtAdd(a, b) == <<a[1] + b[1], a[2] + b[2]>>
AmtSub(a, b) == <<a[1] - b[1], a[2] - b[2]>>
\* a < b; the 1e-9 parts of the model never carry into a whole coin
AmtLt(a, b) == a[1] < b[1] \/ (a[1] = b[1] /\ a[2] < b[2])
AmtLe(a, b) == a = b \/ AmtLt(a, b)

\* str.strip() of an address is empty
IsBlank(s) == s \in {"", " "}

(***************************************************************************)
(* Block.                                                                  *)
(***************************************************************************)
isoformat(t) == [iso |-> t]
\* json.dumps(v, sort_keys=True): one text per value, whatever the key order
dumps(v) == [json |-> v]

\* Block.calculate_hash: the digest of index, previous_hash, the ISO text of
\* the timestamp, the canonical JSON of the transactions, and the nonce
calculate_hash(b) ==
    [index |-> b.index, previous_hash |-> b.previous_hash,
     timestamp |-> isoformat(b.timestamp),
     transactions |-> dumps(b.transactions),
     nonce |-> b.nonce]

\* Block.__init__ with an explicit timestamp; nonce 0, hash computed at once
Block(index, previous_hash, transactions, timestamp) ==
    LET b == [index |-> index, previous_hash |-> previous_hash,
              timestamp |-> timestamp, transactions |-> transactions,
              nonce |-> 0]
    IN  b @@ [hash |-> calculate_hash(b)]

RECURSIVE Pow16(_)
Pow16(d) == IF d = 0 THEN 1 ELSE 16 * Pow16(d - 1)

\* the first `d` hexadecimal characters of a digest, read as a number: 0 means
\* they are all '0'.  The previous_hash literal "0" of the genesis block is
\* itself a string of zeros.
Prefix(h, d) ==
    IF "literal" \in DOMAIN h THEN 0
    ELSE (7 * h.index + 3 * h.timestamp.iso + 5 * Len(h.transactions.json) + h.nonce)
             % Pow16(d)

\* one round of the search hashing the block before the nonce is incremented
NonceStep_HashFirst(b) ==
    [b EXCEPT !.nonce = b.nonce + 1, !.hash = calculate_hash(b)]

\* one round of the search of Block.mine_block: the nonce is incremented,
\* then the hash is recomputed
NonceStep(b) ==
    LET n == [b EXCEPT !.nonce = b.nonce + 1]
    IN  [n EXCEPT !.hash = calculate_hash(n)]

\* Block.mine_block: increment the nonce and rehash until the prefix is zero
RECURSIVE Block_mine_block(_, _)
Block_mine_block(b, d) ==
    IF Prefix(b.hash, d) = 0 THEN b
    ELSE Block_mine_block(NonceStep(b), d)

(***************************************************************************)
(* Blockchain: the pure parts.                                             *)
(***************************************************************************)
\* the fixed timestamp 2025-01-01T00:00:00Z of the genesis block, as instant 0
fixed_ts == 0
\* previous_hash of the genesis block: the text "0", which is no digest
ZeroHash == [literal |-> "0"]

genesis_tx == [from |-> "SYSTEM", to |-> "genesis", amount |-> <<5000, 0>>]
create_genesis_block == Block(0, ZeroHash, <<genesis_tx>>, fixed_ts)

get_latest_block(c) == c[Len(c)]

RECURSIVE FoldTxs_DebitSystem(_, _, _)
\* the inner loop of get_balance debiting SYSTEM like any other sender
FoldTxs_DebitSystem(txs, address, balance) ==
    IF txs = <<>> THEN balance
    ELSE LET tx == Head(txs)
             b1 == IF tx.from = address
                   THEN AmtSub(balance, tx.amount) ELSE balance
             b2 == IF tx.to = address THEN AmtAdd(b1, tx.amount) ELSE b1
         IN  FoldTxs_DebitSystem(Tail(txs), address, b2)

RECURSIVE FoldTxs(_, _, _)
\* the inner loop of get_balance over one block's transactions
FoldTxs(txs, address, balance) ==
    IF txs = <<>> THEN balance
    ELSE LET tx == Head(txs)
             b1 == IF tx.from = address /\ tx.from # "SYSTEM"
                   THEN AmtSub(balance, tx.amount) ELSE balance
             b2 == IF tx.to = address THEN AmtAdd(b1, tx.amount) ELSE b1
         IN  FoldTxs(Tail(txs), address, b2)

RECURSIVE FoldBlocks(_, _, _)
FoldBlocks(c, address, balance) ==
    IF c = <<>> THEN balance
    ELSE FoldBlocks(Tail(c), address,
                    FoldTxs(Head(c).transactions, address, balance))

\* Blockchain.get_balance on chain c
get_balance(c, address) == FoldBlocks(c, address, Zero)

\* dict.get(key, 0.0)
Get(balances, key) == IF key \in DOMAIN balances THEN balances[key] ELSE Zero

RECURSIVE ReplayTxs(_, _)
\* the transaction loop of is_chain_valid: [ok, balances]
ReplayTxs(txs, balances) ==
    IF txs = <<>> THEN [ok |-> TRUE, balances |-> balances]
    ELSE LET tx == Head(txs)
             sender == tx.from
             recipient == tx.to
             amount == tx.amount
         IN  IF AmtLt(amount, Zero) THEN [ok |-> FALSE, balances |-> balances]
             ELSE IF sender # "SYSTEM"
                     /\ AmtLt(Get(balances, sender), AmtSub(amount, Epsilon))
                  THEN [ok |-> FALSE, balances |-> balances]
             ELSE LET b1 == IF sender # "SYSTEM"
                            THEN (sender :> AmtSub(Get(balances, sender), amount))
                                     @@ balances
                            ELSE balances
                      b2 == (recipient :> AmtAdd(Get(b1, recipient), amount)) @@ b1
                  IN  ReplayTxs(Tail(txs), b2)

RECURSIVE ValidFrom(_, _, _)
\* the block loop of is_chain_valid from position i (1-based) on
ValidFrom(c, i, balances) ==
    IF i > Len(c) THEN TRUE
    ELSE LET block == c[i]
         IN  IF block.hash # calculate_hash(block) THEN FALSE
             ELSE IF i > 1 /\ (\/ block.previous_hash # c[i - 1].hash
                               \/ block.index # i - 1
                               \/ block.timestamp <= c[i - 1].timestamp)
                  THEN FALSE
             ELSE LET r == ReplayTxs(block.transactions, balances)
                  IN  IF ~r.ok THEN FALSE ELSE ValidFrom(c, i + 1, r.balances)

\* Blockchain.is_chain_valid(chain) on a node whose own chain is self:
\* `chain or self.chain` takes the node's chain for an empty candidate
is_chain_valid(self, c) ==
    ValidFrom(IF c = <<>> THEN self ELSE c, 1, <<>>)

(***************************************************************************)
(* Wire records: Block.to_dict and Block.from_dict.                        *)
(***************************************************************************)
to_dict(b) ==
    [index |-> b.index, previous_hash |-> b.previous_hash,
     timestamp |-> isoformat(b.timestamp), transactions |-> b.transactions,
     nonce |-> b.nonce, hash |-> b.hash]

\* datetime.fromisoformat accepts the text
IsIso(s) == "iso" \in DOMAIN s

\* Block.from_dict returns (it raises KeyError on a missing index,
\* previous_hash or timestamp and ValueError on a malformed timestamp)
CanParse(data) ==
    /\ {"index", "previous_hash", "timestamp"} \subseteq DOMAIN data
    /\ IsIso(data.timestamp)

\* Block.from_dict: nonce and hash are taken from the record as given
from_dict(data) ==
    LET ts == data.timestamp.iso
        block == Block(data.index, data.previous_hash,
                       IF "transactions" \in DOMAIN data
                       THEN data.transactions ELSE <<>>, ts)
        b1 == [block EXCEPT !.nonce = IF "nonce" \in DOMAIN data
                                      THEN data.nonce ELSE 0]
    IN  [b1 EXCEPT !.hash = IF "hash" \in DOMAIN data
                            THEN data.hash ELSE calculate_hash(b1)]

(***************************************************************************)
(* Blockchain: the operations, as functions of the node's fields.          *)
(***************************************************************************)
RECURSIVE PendingOut(_, _)
\* sum(t["amount"] for t in self.mempool if t["from"] == sender)
PendingOut(mp, sender) ==
    IF mp = <<>> THEN Zero
    ELSE LET rest == PendingOut(Tail(mp), sender)
         IN  IF Head(mp).from = sender THEN AmtAdd(Head(mp).amount, rest)
             ELSE rest

\* the funds test without the pending amounts of the mempool
InsufficientFunds_NoPending(c, mp, sender, amount) ==
    AmtLt(get_balance(c, sender), AmtSub(amount, Epsilon))

\* the funds test of add_transaction (line 97)
InsufficientFunds(c, mp, sender, amount) ==
    AmtLt(AmtSub(get_balance(c, sender), PendingOut(mp, sender)),
          AmtSub(amount, Epsilon))

\* add_transaction admitting whatever SYSTEM sends
add_transaction_SystemUnchecked(c, mp, tx) ==
    IF \E r \in {"from", "to", "amount"} : r \notin DOMAIN tx
    THEN [ret |-> "InvalidInput", mempool |-> mp]
    ELSE IF tx.from = "SYSTEM"
    THEN [ret |-> "ok",
          mempool |-> Append(mp, [from |-> tx.from, to |-> tx.to,
                                  amount |-> tx.amount])]
    ELSE IF IsBlank(tx.from) \/ IsBlank(tx.to)
    THEN [ret |-> "InvalidInput", mempool |-> mp]
    ELSE IF AmtLe(tx.amount, Zero)
    THEN [ret |-> "InvalidInput", mempool |-> mp]
    ELSE IF InsufficientFunds(c, mp, tx.from, tx.amount)
    THEN [ret |-> "InsufficientFunds", mempool |-> mp]
    ELSE [ret |-> "ok",
          mempool |-> Append(mp, [from |-> tx.from, to |-> tx.to,
                                  amount |-> tx.amount])]

\* Blockchain.add_transaction: the error raised or "ok", and the mempool
add_transaction(c, mp, tx) ==
    IF \E r \in {"from", "to", "amount"} : r \notin DOMAIN tx
    THEN [ret |-> "InvalidInput", mempool |-> mp]
    ELSE IF IsBlank(tx.from) \/ IsBlank(tx.to)
    THEN [ret |-> "InvalidInput", mempool |-> mp]
    ELSE IF AmtLe(tx.amount, Zero)
    THEN [ret |-> "InvalidInput", mempool |-> mp]
    ELSE IF tx.from # "SYSTEM" /\ InsufficientFunds(c, mp, tx.from, tx.amount)
    THEN [ret |-> "InsufficientFunds", mempool |-> mp]
    ELSE [ret |-> "ok",
          mempool |-> Append(mp, [from |-> tx.from, to |-> tx.to,
                                  amount |-> tx.amount])]

\* the mempool without every entry whose JSON text is that of a non-SYSTEM
\* transaction of txs (lines 115-116 and 224-225)
Prune(mp, txs) ==
    LET included == {dumps(txs[i]) : i \in {j \in 1..Len(txs) : txs[j].from # "SYSTEM"}}
        keep(tx) == dumps(tx) \notin included
    IN  SelectSeq(mp, keep)

Min(a, b) == IF a < b THEN a ELSE b

\* mine_block taking the whole mempool, whatever the block capacity
mine_block_NoCapacity(c, mp, miner_address, now) ==
    IF IsBlank(miner_address)
    THEN [ret |-> "InvalidInput", chain |-> c, mempool |-> mp]
    ELSE LET reward_tx == [from |-> "SYSTEM", to |-> miner_address,
                           amount |-> mining_reward]
             txs == Append(mp, reward_tx)
             new_block == Block_mine_block(
                              Block(Len(c), get_latest_block(c).hash, txs, now),
                              difficulty)
         IN  [ret |-> "ok", chain |-> Append(c, new_block),
              mempool |-> Prune(mp, txs), block |-> new_block]

\* mine_block numbering the new block one too high
mine_block_IndexOff(c, mp, miner_address, now) ==
    IF IsBlank(miner_address)
    THEN [ret |-> "InvalidInput", chain |-> c, mempool |-> mp]
    ELSE LET reward_tx == [from |-> "SYSTEM", to |-> miner_address,
                           amount |-> mining_reward]
             txs == Append(SubSeq(mp, 1, Min(block_capacity, Len(mp))), reward_tx)
             new_block == Block_mine_block(
                              Block(Len(c) + 1, get_latest_block(c).hash, txs, now),
                              difficulty)
         IN  [ret |-> "ok", chain |-> Append(c, new_block),
              mempool |-> Prune(mp, txs), block |-> new_block]

\* Blockchain.mine_block at instant now: "InvalidInput" or "ok", the chain,
\* the mempool and the mined block
mine_block(c, mp, miner_address, now) ==
    IF IsBlank(miner_address)
    THEN [ret |-> "InvalidInput", chain |-> c, mempool |-> mp]
    ELSE LET reward_tx == [from |-> "SYSTEM", to |-> miner_address,
                           amount |-> mining_reward]
             txs == Append(SubSeq(mp, 1, Min(block_capacity, Len(mp))), reward_tx)
             new_block == Block_mine_block(
                              Block(Len(c), get_latest_block(c).hash, txs, now),
                              difficulty)
         IN  [ret |-> "ok", chain |-> Append(c, new_block),
              mempool |-> Prune(mp, txs), block |-> new_block]

\* replace_chain taking a valid candidate that is not shorter
replace_chain_NotShorter(c, new_chain) ==
    IF Len(new_chain) >= Len(c) /\ is_chain_valid(c, new_chain)
    THEN [ret |-> TRUE, chain |-> new_chain]
    ELSE [ret |-> FALSE, chain |-> c]

\* replace_chain taking any valid chain, whatever its length
replace_chain_AnyValid(c, new_chain) ==
    IF is_chain_valid(c, new_chain)
    THEN [ret |-> TRUE, chain |-> new_chain]
    ELSE [ret |-> FALSE, chain |-> c]

\* Blockchain.replace_chain: the value returned and the chain
replace_chain(c, new_chain) ==
    IF Len(new_chain) > Len(c) /\ is_chain_valid(c, new_chain)
    THEN [ret |-> TRUE, chain |-> new_chain]
    ELSE [ret |-> FALSE, chain |-> c]

\* receive_block testing the link to the head only
receive_block_Unvalidated(c, mp, data) ==
    IF ~CanParse(data) THEN [ret |-> FALSE, chain |-> c, mempool |-> mp]
    ELSE LET block == from_dict(data)
         IN  IF block.previous_hash = get_latest_block(c).hash
             THEN [ret |-> TRUE, chain |-> Append(c, block),
                   mempool |-> Prune(mp, block.transactions)]
             ELSE [ret |-> FALSE, chain |-> c, mempool |-> mp]

\* receive_block dropping the block's transactions from the mempool before
\* the block is tested
receive_block_PruneFirst(c, mp, data) ==
    IF ~CanParse(data) THEN [ret |-> FALSE, chain |-> c, mempool |-> mp]
    ELSE LET block == from_dict(data)
         IN  IF /\ block.previous_hash = get_latest_block(c).hash
                /\ is_chain_valid(c, Append(c, block))
             THEN [ret |-> TRUE, chain |-> Append(c, block),
                   mempool |-> Prune(mp, block.transactions)]
             ELSE [ret |-> FALSE, chain |-> c,
                   mempool |-> Prune(mp, block.transactions)]

\* the handler receive_block on a wire record: accepted or not, the chain and
\* the mempool
receive_block(c, mp, data) ==
    IF ~CanParse(data) THEN [ret |-> FALSE, chain |-> c, mempool |-> mp]
    ELSE LET block == from_dict(data)
         IN  IF /\ block.previous_hash = get_latest_block(c).hash
                /\ is_chain_valid(c, Append(c, block))
             THEN [ret |-> TRUE, chain |-> Append(c, block),
                   mempool |-> Prune(mp, block.transactions)]
             ELSE [ret |-> FALSE, chain |-> c, mempool |-> mp]

\* Blockchain.__init__ on every node; the clocks are past the genesis
\* instant and agree
InitLocal ==
    /\ chain = [n \in Node |-> <<create_genesis_block>>]
    /\ mempool = [n \in Node |-> <<>>]
    /\ nodes = [n \in Node |-> {}]
    /\ clock = [n \in Node |-> fixed_ts + 1]
    /\ last = [op |-> "init"]

\* the same, with the clock of n2 ahead of that of n1 by up to MaxSkew
Init ==
    /\ chain = [n \in Node |-> <<create_genesis_block>>]
    /\ mempool = [n \in Node |-> <<>>]
    /\ nodes = [n \in Node |-> {}]
    /\ \E skew \in 0..MaxSkew :
         clock = [n \in Node |-> fixed_ts + 1 + (IF n = "n2" THEN skew ELSE 0)]
    /\ last = [op |-> "init"]

\* the handler new_transaction: Blockchain.add_transaction(tx)
AddTransaction(n, tx) ==
    /\ Len(mempool[n]) < MaxMempool
    /\ LET r == add_transaction(chain[n], mempool[n], tx)
       IN  /\ mempool' = [mempool EXCEPT ![n] = r.mempool]
           /\ last' = Call("add_transaction", n, tx, r.ret)
    /\ UNCHANGED <<chain, nodes, clock>>

\* the peers of n that a push reaches: every registered address is tried, a
\* request that fails is passed over
Reached(n) == SUBSET (nodes[n] \cap (Node \ {n}))

\* the handler mine: Blockchain.mine_block(miner), then the block is posted
\* to the peers; each peer reached runs receive_block on it.  The nonce
\* search takes time: every clock has moved on when a block was mined.
Mine(n, miner) ==
    /\ Len(chain[n]) < MaxChain
    /\ LET r == mine_block(chain[n], mempool[n], miner, clock[n])
       IN  /\ last' = Call("mine", n, miner, r.ret)
           /\ clock' = IF r.ret = "ok" THEN [m \in Node |-> clock[m] + 1]
                       ELSE clock
           /\ IF r.ret # "ok"
              THEN UNCHANGED <<chain, mempool>>
              ELSE \E reached \in Reached(n) :
                     LET got(m) == receive_block(chain[m], mempool[m],
                                                 to_dict(r.block))
                     IN  /\ chain' = [m \in Node |->
                                        IF m = n THEN r.chain
                                        ELSE IF m \in reached THEN got(m).chain
                                        ELSE chain[m]]
                         /\ mempool' = [m \in Node |->
                                        IF m = n THEN r.mempool
                                        ELSE IF m \in reached THEN got(m).mempool
                                        ELSE mempool[m]]
    /\ UNCHANGED nodes

(***************************************************************************)
(* One node on its own: transactions are submitted and blocks are mined.   *)
(***************************************************************************)
LocalTx ==
    {[from |-> "genesis", to |-> "alice", amount |-> <<100, 0>>],
     [from |-> "genesis", to |-> "alice", amount |-> <<5000, 0>>],
     [from |-> "alice", to |-> "genesis", amount |-> <<0, 1>>],
     [from |-> "alice", to |-> "genesis", amount |-> <<100, 0>>],
     [from |-> "SYSTEM", to |-> "alice", amount |-> <<0, 1>>],
     [from |-> "genesis", to |-> "alice", amount |-> <<0, 0>>],
     [from |-> "genesis", to |-> " ", amount |-> <<100, 0>>]}

Miner == {"bob", " "}

NextLocal ==
    \/ \E tx \in LocalTx : AddTransaction("n1", tx)
    \/ \E miner \in Miner : Mine("n1", miner)

SpecLocal == InitLocal /\ [][NextLocal]_vars

(***************************************************************************)
(* The network: two nodes that register each other, push the blocks they   *)
(* mine and fetch each other's chains.                                     *)
(***************************************************************************)
\* Blockchain.register_node: "InvalidInput" or "ok", and the peer set
register_node(ns, address) ==
    IF IsBlank(address) THEN [ret |-> "InvalidInput", nodes |-> ns]
    ELSE [ret |-> "ok", nodes |-> ns \cup {address}]

\* the handler register_node
RegisterNode(n, address) ==
    /\ LET r == register_node(nodes[n], address)
       IN  /\ nodes' = [nodes EXCEPT ![n] = r.nodes]
           /\ last' = Call("register_node", n, address, r.ret)
    /\ UNCHANGED <<chain, mempool, clock>>

\* the answer of node m to a request for /chain: Blockchain.to_dict
Served(m) == [i \in 1..Len(chain[m]) |-> to_dict(chain[m][i])]

\* every record of an answer can be parsed by Block.from_dict
AllParse(response) == \A i \in 1..Len(response) : CanParse(response[i])

\* [Block.from_dict(b) for b in r.json()]
Parsed(response) == [i \in 1..Len(response) |-> from_dict(response[i])]

RECURSIVE Longest_Unvalidated(_, _, _)
\* the loop of sync keeping the longest chain parsed, valid or not
Longest_Unvalidated(self, longest, responses) ==
    IF responses = <<>> THEN longest
    ELSE IF ~AllParse(Head(responses))
    THEN Longest_Unvalidated(self, longest, Tail(responses))
    ELSE LET c == Parsed(Head(responses))
         IN  Longest_Unvalidated(self,
                                 IF Len(c) > Len(longest) THEN c ELSE longest,
                                 Tail(responses))

RECURSIVE Longest(_, _, _)
\* the loop of sync over the answers received, in the order the peers were
\* visited; an answer that raises (a record that does not parse) is passed
\* over.  An answer is parsed once and the chain kept so far is decided once
\* per answer, as in the loop: c, next and result each name one value
Longest(self, longest, responses) ==
    IF responses = <<>> THEN longest
    ELSE IF ~AllParse(Head(responses))
    THEN Longest(self, longest, Tail(responses))
    ELSE CHOOSE result \in
             {Longest(self, next, Tail(responses)) :
                  next \in {IF Len(c) > Len(longest) /\ is_chain_valid(self, c)
                            THEN c ELSE longest :
                                c \in {Parsed(Head(responses))}}} : TRUE

\* the orders in which the members of set S can be visited
Orders(S) ==
    {o \in [1..Cardinality(S) -> S] : \A i, j \in 1..Cardinality(S) :
                                          i # j => o[i] # o[j]}

\* the handler sync on the answers received, in the order the peers were
\* visited: the loop, then replace_chain(longest)
SyncOn(n, responses) ==
    /\ LET longest == Longest(chain[n], chain[n], responses)
           r == replace_chain(chain[n], longest)
       IN  /\ chain' = [chain EXCEPT ![n] = r.chain]
           /\ last' = Call("sync", n, responses,
                           [replaced |-> r.ret, length |-> Len(r.chain)])
    /\ UNCHANGED <<mempool, nodes, clock>>

\* the handler sync among the nodes: the peers that answer are visited in
\* some order, the others are passed over
Sync(n) ==
    \E answered \in SUBSET (nodes[n] \cap Node) :
        \E peers \in Orders(answered) :
            SyncOn(n, [i \in 1..Len(peers) |-> Served(peers[i])])

NetTx == {[from |-> "genesis", to |-> "alice", amount |-> <<5000, 0>>]}

Next ==
    \/ \E n \in Node, tx \in NetTx : AddTransaction(n, tx)
    \/ \E n \in Node : Mine(n, "bob")
    \/ \E n \in Node : \E address \in (Node \ {n}) \cup {" "} :
           RegisterNode(n, address)
    \/ \E n \in Node : Sync(n)

Spec == Init /\ [][Next]_vars

\* what the handler sync does to the chains when every registered peer
\* answers
FullSync(n) ==
    \E peers \in Orders(nodes[n] \cap Node) :
        \E longest \in {Longest(chain[n], chain[n],
                                 [i \in 1..Len(peers) |-> Served(peers[i])])} :
            chain' = [chain EXCEPT ![n] = replace_chain(chain[n], longest).chain]

\* the network in which a node whose sync, with all its peers answering,
\* would replace its chain is sooner or later asked to sync
SpecFair == Spec /\ \A n \in Node : WF_chain(FullSync(n))

\* the network with clocks that agree, and two transfers that each take all
\* that genesis holds
RivalTx == {[from |-> "genesis", to |-> "alice", amount |-> <<5000, 0>>],
            [from |-> "genesis", to |-> "carol", amount |-> <<5000, 0>>]}

NextRival ==
    \/ \E n \in Node, tx \in RivalTx : AddTransaction(n, tx)
    \/ \E n \in Node : Mine(n, "bob")
    \/ \E n \in Node : \E address \in Node \ {n} : RegisterNode(n, address)
    \/ \E n \in Node : Sync(n)

SpecRival == InitLocal /\ [][NextRival]_vars

\* transactions with a field missing, a blank address, or an amount that is
\* zero or negative
BadTx ==
    {[from |-> "SYSTEM", to |-> "alice", amount |-> <<0, 0>>],
     [from |-> "genesis", to |-> "alice", amount |-> <<0, 0>>],
     [from |-> "SYSTEM", to |-> "alice", amount |-> <<-5, 0>>],
     [from |-> "alice", to |-> "genesis", amount |-> <<-5, 0>>],
     [from |-> "", to |-> "alice", amount |-> <<100, 0>>],
     [from |-> " ", to |-> "alice", amount |-> <<100, 0>>],
     [from |-> "SYSTEM", to |-> " ", amount |-> <<100, 0>>],
     [from |-> "genesis", to |-> "", amount |-> <<100, 0>>],
     [from |-> "SYSTEM", to |-> "alice"],
     [from |-> "genesis", amount |-> <<100, 0>>],
     [to |-> "alice", amount |-> <<100, 0>>]}

NextInput ==
    \/ \E tx \in BadTx \cup NetTx : AddTransaction("n1", tx)
    \/ Mine("n1", "bob")

SpecInput == InitLocal /\ [][NextInput]_vars

(***************************************************************************)
(* One node open to third parties, which post blocks of their own making   *)
(* to receive_block and offer chains of their own making to replace_chain. *)
(***************************************************************************)
\* transaction lists a third party puts in a block
ForgedTxs ==
    {<<[from |-> "SYSTEM", to |-> "eve", amount |-> <<50, 0>>]>>,
     <<[from |-> "genesis", to |-> "SYSTEM", amount |-> <<5000, 0>>]>>,
     <<[from |-> "SYSTEM", to |-> "eve", amount |-> <<-5, 0>>]>>,
     <<[from |-> "genesis", to |-> "alice", amount |-> <<5000, 0>>]>>}

\* an unmined block that extends chain c, as a wire record
GoodRecord(c, txs) ==
    to_dict(Block(Len(c), get_latest_block(c).hash, txs,
                  get_latest_block(c).timestamp + 1))

\* wire records a third party makes for a chain c: blocks that extend c, and
\* such blocks with one field wrong or missing
Forged(c) ==
    LET good == GoodRecord(c, <<[from |-> "SYSTEM", to |-> "eve",
                                 amount |-> <<50, 0>>]>>)
        rehash(d) == [d EXCEPT !.hash = calculate_hash(from_dict(d))]
    IN  {GoodRecord(c, txs) : txs \in ForgedTxs}
        \cup {[good EXCEPT !.hash = ZeroHash],
              rehash([good EXCEPT !.previous_hash = ZeroHash]),
              rehash([good EXCEPT !.index = 0]),
              rehash([good EXCEPT !.timestamp =
                          isoformat(get_latest_block(c).timestamp)]),
              [good EXCEPT !.timestamp = [text |-> "yesterday"]],
              [x \in DOMAIN good \ {"index"} |-> good[x]]}

\* the handler receive_block on a record posted by a third party
ReceiveBlock(n, data) ==
    /\ Len(chain[n]) < MaxChain
    /\ LET r == receive_block(chain[n], mempool[n], data)
       IN  /\ chain' = [chain EXCEPT ![n] = r.chain]
           /\ mempool' = [mempool EXCEPT ![n] = r.mempool]
           /\ last' = Call("receive_block", n, data, r.ret)
    /\ UNCHANGED <<nodes, clock>>

\* the non-empty prefixes of chain c
Prefixes(c) == {SubSeq(c, 1, k) : k \in 1..Len(c)}

\* a chain of a third party's own making: a first block that allots the
\* supply to eve, and one block on top of it
ForeignChain ==
    LET first == Block(0, ZeroHash,
                       <<[from |-> "SYSTEM", to |-> "eve", amount |-> <<5000, 0>>]>>,
                       fixed_ts)
        txs == <<[from |-> "SYSTEM", to |-> "eve", amount |-> <<50, 0>>]>>
    IN  <<first, from_dict(GoodRecord(<<first>>, txs))>>

\* candidate chains a third party offers to a node whose chain is c: a prefix
\* of c, a prefix of c with one forged block more, and a chain of its own
Candidates(c) ==
    {ForeignChain} \cup
    Prefixes(c)
    \cup UNION {{Append(p, from_dict(d)) : d \in {x \in Forged(p) : CanParse(x)}} :
                   p \in Prefixes(c)}

\* Blockchain.replace_chain(candidate)
ReplaceChain(n, candidate) ==
    /\ Len(candidate) <= MaxChain
    /\ LET r == replace_chain(chain[n], candidate)
       IN  /\ chain' = [chain EXCEPT ![n] = r.chain]
           /\ last' = Call("replace_chain", n, candidate, r.ret)
    /\ UNCHANGED <<mempool, nodes, clock>>

NextOpen ==
    \/ \E tx \in NetTx : AddTransaction("n1", tx)
    \/ Mine("n1", "bob")
    \/ \E data \in Forged(chain["n1"]) : ReceiveBlock("n1", data)
    \/ \E candidate \in Candidates(chain["n1"]) : ReplaceChain("n1", candidate)
    \/ RegisterNode("n1", "n2")

SpecOpen == InitLocal /\ [][NextOpen]_vars

(***************************************************************************)
(* One node that fetches chains: from the other node, which mines blocks   *)
(* of its own, and from a third party, which answers what it likes.        *)
(***************************************************************************)
\* the address of the third party
Eve == "eve"

\* chain c as the answer to a request for /chain
Wire(c) == [i \in 1..Len(c) |-> to_dict(c[i])]

\* records a third party adds to chain c: a block that extends it, a block
\* with a negative amount, and a record whose timestamp does not parse
EveRecords(c) ==
    LET good == GoodRecord(c, <<[from |-> "SYSTEM", to |-> Eve,
                                 amount |-> <<50, 0>>]>>)
    IN  {good,
         GoodRecord(c, <<[from |-> "SYSTEM", to |-> Eve, amount |-> <<-5, 0>>]>>),
         [good EXCEPT !.timestamp = [text |-> "yesterday"]]}

\* answers a third party gives to a node whose chain is c: a prefix of c, and
\* a prefix of c with one record more
EveAnswers(c) ==
    {a \in {Wire(p) : p \in Prefixes(c)}
            \cup UNION {{Append(Wire(p), d) : d \in EveRecords(p)} :
                            p \in Prefixes(c)} :
        Len(a) <= MaxChain}

\* the handler sync with the other node and the third party among the peers:
\* the peers that answer are visited in some order
SyncOpen(n) ==
    \E answered \in SUBSET nodes[n] :
        \E peers \in Orders(answered) :
            \E a \in IF Eve \in answered THEN EveAnswers(chain[n]) ELSE {<<>>} :
                SyncOn(n, [i \in 1..Len(peers) |->
                              IF peers[i] \in Node THEN Served(peers[i]) ELSE a])

NextSync ==
    \/ \E n \in Node : Mine(n, "bob")
    \/ \E address \in {"n2", Eve} : RegisterNode("n1", address)
    \/ SyncOpen("n1")

SpecSync == InitLocal /\ [][NextSync]_vars

(***************************************************************************)
(* One node that is given everything: transactions, mine requests, blocks  *)
(* and candidate chains from a third party, and the third party's answers  *)
(* when it syncs.                                                          *)
(***************************************************************************)
NextExposed ==
    \/ \E tx \in NetTx : AddTransaction("n1", tx)
    \/ Mine("n1", "bob")
    \/ \E data \in Forged(chain["n1"]) : ReceiveBlock("n1", data)
    \/ \E candidate \in Candidates(chain["n1"]) : ReplaceChain("n1", candidate)
    \/ RegisterNode("n1", Eve)
    \/ SyncOpen("n1")

SpecExposed == InitLocal /\ [][NextExposed]_vars

\* C20: the chain of a node is never empty and never gets shorter; its
\* length changes only by a mined block or an accepted received block (by
\* exactly one) or by an accepted replace_chain or sync (by at least one);
\* add_transaction and register_node leave the chain as it is.
C20_LengthNeverDecreases ==
    [][\A n \in Node :
         LET before == Len(chain[n])
             after == Len(chain'[n])
         IN  /\ after >= 1
             /\ after >= before
             /\ after # before =>
                   \/ last'.op = "mine" /\ after = before + 1
                   \/ /\ last'.op = "receive_block" /\ last'.node = n
                      /\ last'.ret = TRUE /\ after = before + 1
                   \/ /\ last'.op = "replace_chain" /\ last'.node = n
                      /\ last'.ret = TRUE /\ after >= before + 1
                   \/ /\ last'.op = "sync" /\ last'.node = n
                      /\ last'.ret.replaced /\ after >= before + 1
             /\ last'.op \in {"add_transaction", "register_node"}
                   => chain'[n] = chain[n]]_vars

\* a valid chain shorter than the node's own, which is as long as chains
\* get, was offered to replace_chain, and the node kept its chain
C20_ShorterRefused ==
    /\ last.op = "replace_chain"
    /\ Len(last.arg) < Len(last.pre.chain)
    /\ is_chain_valid(last.pre.chain, last.arg)
    /\ last.ret = FALSE
    /\ chain[last.node] = last.pre.chain
    /\ Len(chain[last.node]) = MaxChain

\* answer i of the sync just served parses and is a valid chain
ValidAnswer(i) ==
    /\ AllParse(last.arg[i])
    /\ is_chain_valid(last.pre.chain, Parsed(last.arg[i]))

\* C11: after sync the node's chain is its previous chain or a peer's chain
\* that is valid and strictly longer than it, and its length is the maximum
\* of the previous length and the lengths of the valid chains the reachable
\* peers served; answers that are malformed or invalid do not count.
C11_SyncTakesLongestValid ==
    last.op = "sync" =>
        LET n == last.node
            pre == last.pre.chain
            lens == {Len(pre)} \cup
                    {Len(last.arg[i]) : i \in {j \in 1..Len(last.arg) : ValidAnswer(j)}}
        IN  /\ \/ chain[n] = pre
               \/ \E i \in 1..Len(last.arg) :
                      /\ ValidAnswer(i)
                      /\ Len(last.arg[i]) > Len(pre)
                      /\ chain[n] = Parsed(last.arg[i])
            /\ Len(chain[n]) \in lens
            /\ \A l \in lens : l <= Len(chain[n])
            /\ last.ret = [replaced |-> chain[n] # pre, length |-> Len(chain[n])]

\* a sync adopted the second peer's chain after the first peer served an
\* invalid chain that was as long
C11_SkippedInvalid ==
    /\ last.op = "sync" /\ last.ret.replaced
    /\ Len(last.arg) = 2
    /\ AllParse(last.arg[1]) /\ ~ValidAnswer(1)
    /\ Len(last.arg[1]) >= Len(chain[last.node])

(***************************************************************************)
(* Properties of one node on its own (SpecLocal).                          *)
(***************************************************************************)
RECURSIVE SumAmounts(_)
SumAmounts(txs) ==
    IF txs = <<>> THEN Zero ELSE AmtAdd(Head(txs).amount, SumAmounts(Tail(txs)))

\* what the sender has on the chain less what it has pending in the mempool
Spendable(c, mp, sender) ==
    LET from_sender(t) == t.from = sender
    IN  AmtSub(get_balance(c, sender), SumAmounts(SelectSeq(mp, from_sender)))

\* the call was add_transaction of a well-formed transaction (both addresses
\* non-blank, amount positive) whose sender is not SYSTEM
FundsChecked ==
    /\ last.op = "add_transaction"
    /\ {"from", "to", "amount"} \subseteq DOMAIN last.arg
    /\ last.arg.from # "SYSTEM"
    /\ ~IsBlank(last.arg.from) /\ ~IsBlank(last.arg.to)
    /\ AmtLt(Zero, last.arg.amount)

\* what add_transaction leaves: nothing changed on the funds error, one
\* record more at the tail of the mempool on success
AddOutcome ==
    /\ last.ret \in {"ok", "InsufficientFunds"}
    /\ chain[last.node] = last.pre.chain
    /\ last.ret = "InsufficientFunds" => mempool[last.node] = last.pre.mempool
    /\ last.ret = "ok" =>
           mempool[last.node] =
               Append(last.pre.mempool,
                      [from |-> last.arg.from, to |-> last.arg.to,
                       amount |-> last.arg.amount])

\* C4 as stated: for a sender other than SYSTEM, add_transaction fails with
\* the funds error exactly when balance(sender) less the sender's pending
\* mempool amounts is less than the amount; the mempool is unchanged on that
\* failure, and on success one record is appended and the chain is unchanged.
C4_AsStated ==
    FundsChecked =>
        /\ last.ret = "InsufficientFunds" <=>
               AmtLt(Spendable(last.pre.chain, last.pre.mempool, last.arg.from),
                     last.arg.amount)
        /\ AddOutcome

\* C4 amended: the funds error is raised exactly when balance(sender) less the
\* sender's pending mempool amounts is less than the amount minus the
\* tolerance 1e-9; the outcome on failure and on success is as stated.
C4_FundsWithinTolerance ==
    FundsChecked =>
        /\ last.ret = "InsufficientFunds" <=>
               AmtLt(Spendable(last.pre.chain, last.pre.mempool, last.arg.from),
                     AmtSub(last.arg.amount, Epsilon))
        /\ AddOutcome

\* a transaction the chain balance alone would cover is refused because of
\* what the sender already has pending
C4_RefusedForPending ==
    /\ FundsChecked
    /\ last.ret = "InsufficientFunds"
    /\ AmtLe(last.arg.amount, get_balance(last.pre.chain, last.arg.from))
    /\ last.pre.mempool # <<>>

\* a field of the transaction is missing, an address is blank, or the amount
\* is zero or negative
Malformed(tx) ==
    \/ ~({"from", "to", "amount"} \subseteq DOMAIN tx)
    \/ IsBlank(tx.from) \/ IsBlank(tx.to)
    \/ AmtLe(tx.amount, Zero)

\* C12: add_transaction of a transaction with a missing field, a blank sender
\* or recipient, or an amount that is zero or negative fails with the
\* invalid-input error, whoever the sender is, and leaves mempool and chain
\* as they were.
C12_MalformedRejected ==
    (last.op = "add_transaction" /\ Malformed(last.arg)) =>
        /\ last.ret = "InvalidInput"
        /\ mempool[last.node] = last.pre.mempool
        /\ chain[last.node] = last.pre.chain

\* SYSTEM as sender was refused an amount of zero while a transaction was
\* pending
C12_SystemRefused ==
    /\ last.op = "add_transaction" /\ last.ret = "InvalidInput"
    /\ {"from", "to", "amount"} \subseteq DOMAIN last.arg
    /\ last.arg.from = "SYSTEM" /\ last.arg.amount = Zero
    /\ last.pre.mempool # <<>>

\* the number of entries of sequence q equal to x
Count(q, x) == Cardinality({i \in 1..Len(q) : q[i] = x})

\* the mempool entries mine put in the block it made: all but the reward
Included == LET b == get_latest_block(chain[last.node])
            IN  SubSeq(b.transactions, 1, Len(b.transactions) - 1)

\* C5 as stated, for a mempool of submitted transfers (no SYSTEM sender):
\* after mine the mempool is the previous mempool less the included
\* transactions, counted as a multiset, so that of two equal entries of which
\* one was included the other remains.
C5_AsStated ==
    (/\ last.op = "mine" /\ last.ret = "ok"
     /\ \A i \in 1..Len(last.pre.mempool) : last.pre.mempool[i].from # "SYSTEM")
    => \A i \in 1..Len(last.pre.mempool) :
           LET tx == last.pre.mempool[i]
           IN  Count(mempool[last.node], tx) =
                   Count(last.pre.mempool, tx) - Count(Included, tx)

\* C15 as stated: after mine, a transaction that was in the mempool once and
\* was put in the mined block is no longer in the mempool, whoever its
\* sender is (SYSTEM included), and a mempool that fitted in the block is
\* empty.
C15_AsStated ==
    (last.op = "mine" /\ last.ret = "ok") =>
        /\ \A i \in 1..Len(Included) :
               Count(last.pre.mempool, Included[i]) = 1 =>
                   Count(mempool[last.node], Included[i]) = 0
        /\ Len(last.pre.mempool) <= block_capacity => mempool[last.node] = <<>>

\* C6: mine with a non-blank miner appends one block, with index the previous
\* length, previous_hash the previous head's hash, and transactions the first
\* min(block_capacity, |mempool|) mempool entries in order followed by the
\* reward; with a blank miner it fails and chain and mempool are unchanged.
C6_MineAppendsOneBlock ==
    last.op = "mine" =>
        LET n == last.node
            pre == last.pre
            k == IF Len(pre.mempool) < block_capacity THEN Len(pre.mempool)
                 ELSE block_capacity
        IN  IF IsBlank(last.arg)
            THEN /\ last.ret # "ok"
                 /\ chain[n] = pre.chain
                 /\ mempool[n] = pre.mempool
            ELSE /\ last.ret = "ok"
                 /\ Len(chain[n]) = Len(pre.chain) + 1
                 /\ SubSeq(chain[n], 1, Len(pre.chain)) = pre.chain
                 /\ LET b == chain[n][Len(chain[n])]
                    IN  /\ b.index = Len(pre.chain)
                        /\ b.previous_hash = pre.chain[Len(pre.chain)].hash
                        /\ Len(b.transactions) = k + 1
                        /\ \A i \in 1..k : b.transactions[i] = pre.mempool[i]
                        /\ b.transactions[k + 1] =
                               [from |-> "SYSTEM", to |-> last.arg,
                                amount |-> mining_reward]

\* a block was mined from a mempool of two different entries that exceeded
\* the block capacity
C6_MinedTruncated ==
    /\ last.op = "mine" /\ last.ret = "ok"
    /\ Len(last.pre.mempool) > block_capacity
    /\ last.pre.mempool[1] # last.pre.mempool[Len(last.pre.mempool)]

\* C7: on one node, after any add_transaction and mine calls from the
\* genesis-only chain, with a clock past the genesis instant that advances
\* between mines, is_chain_valid(chain) is true.
C7_MinedChainValid == is_chain_valid(chain["n1"], chain["n1"])

\* the chain holds two mined blocks, one with a transfer out of funds that
\* its sender received in the block before
C7_SpentReceivedFunds ==
    /\ Len(chain["n1"]) = 3
    /\ \E i \in 1..Len(chain["n1"][3].transactions) :
           /\ chain["n1"][3].transactions[i].from = "alice"
           /\ chain["n1"][3].transactions[i].amount = <<100, 0>>

(***************************************************************************)
(* Properties of a node open to third parties (SpecOpen).                  *)
(***************************************************************************)
\* C1: replace_chain(candidate) returns true exactly when the candidate is
\* strictly longer than the node's chain and is_chain_valid(candidate) is
\* true, and then the chain is the candidate; otherwise it returns false and
\* the chain is unchanged.
C1_ReplaceIffLongerAndValid ==
    last.op = "replace_chain" =>
        /\ last.ret = TRUE <=>
               /\ Len(last.arg) > Len(last.pre.chain)
               /\ is_chain_valid(last.pre.chain, last.arg)
        /\ last.ret = TRUE => chain[last.node] = last.arg
        /\ last.ret = FALSE => chain[last.node] = last.pre.chain

\* a valid candidate of three blocks, other than the node's chain of three
\* blocks, was refused
C1_EqualLengthRefused ==
    /\ last.op = "replace_chain" /\ last.ret = FALSE
    /\ Len(last.arg) = 3 /\ Len(last.pre.chain) = 3
    /\ last.arg # last.pre.chain
    /\ is_chain_valid(last.pre.chain, last.arg)
    /\ chain[last.node] = last.pre.chain

\* C2: receive_block accepts a block only if its previous_hash is the hash of
\* the receiver's head and is_chain_valid(chain + [block]) is true; on
\* acceptance the chain is the previous chain with that block appended, on
\* rejection the chain is the previous chain.
C2_ReceiveAppendsOrRejects ==
    last.op = "receive_block" =>
        IF last.ret = TRUE
        THEN /\ CanParse(last.arg)
             /\ LET block == from_dict(last.arg)
                    head == last.pre.chain[Len(last.pre.chain)]
                IN  /\ block.previous_hash = head.hash
                    /\ is_chain_valid(last.pre.chain,
                                      Append(last.pre.chain, block))
                    /\ chain[last.node] = Append(last.pre.chain, block)
        ELSE chain[last.node] = last.pre.chain

\* a posted block was accepted on top of a block that was itself received
C2_ReceivedTwice ==
    /\ last.op = "receive_block" /\ last.ret = TRUE
    /\ Len(chain[last.node]) = 3
    /\ chain[last.node][2].transactions[1].to # "bob"

\* C3: a rejected receive_block or replace_chain leaves the node's chain,
\* mempool and peer set as they were before the call.
C3_RejectionChangesNothing ==
    (last.op \in {"receive_block", "replace_chain"} /\ last.ret = FALSE) =>
        /\ chain[last.node] = last.pre.chain
        /\ mempool[last.node] = last.pre.mempool
        /\ nodes[last.node] = last.pre.nodes

\* a block was rejected that carried a transaction pending in the mempool of
\* a node with a registered peer
C3_RejectedWithPending ==
    /\ last.op = "receive_block" /\ last.ret = FALSE
    /\ CanParse(last.arg)
    /\ last.pre.nodes # {}
    /\ \E i \in 1..Len(last.pre.mempool) :
           \E j \in 1..Len(last.arg.transactions) :
               last.pre.mempool[i] = last.arg.transactions[j]

\* C13 as stated: in every reachable state every block of the node's chain
\* has a stored hash equal to the hash recomputed from its fields, and every
\* block but the genesis block has a hash whose first `difficulty` hex
\* characters are all '0', blocks that came in through receive_block or
\* replace_chain included.
C13_AsStated ==
    \A n \in Node : \A i \in 1..Len(chain[n]) :
        /\ chain[n][i].hash = calculate_hash(chain[n][i])
        /\ i > 1 => Prefix(chain[n][i].hash, difficulty) = 0

\* C17 as stated: in every reachable state the first block of the node's
\* chain is the fixed genesis block, whatever chains replace_chain was
\* offered.
C17_AsStated == \A n \in Node : chain[n][1] = create_genesis_block

\* every address that is the sender or the recipient of a transaction of c
Addresses(c) ==
    UNION {UNION {{c[i].transactions[j].from, c[i].transactions[j].to} :
                      j \in 1..Len(c[i].transactions)} : i \in 1..Len(c)}

RECURSIVE SumBalances(_, _)
\* the sum of get_balance over the addresses of set S
SumBalances(c, S) ==
    IF S = {} THEN Zero
    ELSE LET a == CHOOSE x \in S : TRUE
         IN  AmtAdd(get_balance(c, a), SumBalances(c, S \ {a}))

\* the transactions of chain c, block after block
RECURSIVE AllTxs(_)
AllTxs(c) == IF c = <<>> THEN <<>>
             ELSE Head(c).transactions \o AllTxs(Tail(c))

\* the sum of the amounts of the transactions of c whose sender is SYSTEM
Issued(c) == LET issued(t) == t.from = "SYSTEM"
             IN  SumAmounts(SelectSeq(AllTxs(c), issued))

C8_AsStated ==
    \A n \in Node : \A i \in 2..Len(chain[n]) :
        /\ chain[n][i].previous_hash = chain[n][i - 1].hash
        /\ chain[n][i].index = i - 1
        /\ chain[n][i].timestamp > chain[n][i - 1].timestamp

(***************************************************************************)
(* Properties of the network whose nodes keep syncing (SpecFair).          *)
(***************************************************************************)
\* every node has registered every other node
FullyRegistered == \A n \in Node : Node \ {n} \subseteq nodes[n]

\* the step is a transaction submitted or a block mined
Active == last'.op \in {"add_transaction", "mine"}

\* all chains have the same length
SameLength == \A n, m \in Node : Len(chain[n]) = Len(chain[m])

\* C18 as stated: when every node has registered every other node and from
\* some point on no transaction is submitted and no block is mined, the
\* nodes' repeated syncs bring all chains to the same length, and from then
\* on no chain is replaced.
C18_AsStated ==
    (<>[]FullyRegistered /\ <>[][~Active]_<<chain, mempool>>)
        => (<>[]SameLength /\ <>[][chain' = chain]_chain)

(***************************************************************************)
(* Two mine requests served by one node at the same time (SpecRace).  The  *)
(* server started by app.run serves each request in a thread of its own;   *)
(* the threads share the Blockchain object and take no lock.  A request    *)
(* runs Blockchain.mine_block statement by statement; last holds, for each *)
(* request, where it is (pc) and its local variables (txs, new_block).     *)
(***************************************************************************)
Request == {"r1", "r2"}

\* the requests that have entered mine_block and not yet appended
InFlight == {r \in Request : last.req[r].pc \in {"taken", "built", "mined"}}

InitRace ==
    /\ chain = [n \in Node |-> <<create_genesis_block>>]
    /\ mempool = [n \in Node |-> <<>>]
    /\ nodes = [n \in Node |-> {}]
    /\ clock = [n \in Node |-> fixed_ts + 1]
    /\ last = [op |-> "mine", node |-> "n1",
               req |-> [r \in Request |-> [pc |-> "idle"]]]

\* a transaction is admitted while the requests are served
Submit(tx) ==
    /\ Len(mempool["n1"]) < MaxMempool
    /\ mempool' = [mempool EXCEPT !["n1"] =
                      add_transaction(chain["n1"], mempool["n1"], tx).mempool]
    /\ UNCHANGED <<chain, nodes, clock, last>>

\* txs = self.mempool[:self.block_capacity]; txs.append(reward_tx)
Take(r, miner) ==
    /\ last.req[r].pc = "idle"
    /\ ~IsBlank(miner)
    /\ Len(chain["n1"]) + Cardinality(InFlight) < MaxChain
    /\ LET mp == mempool["n1"]
           reward_tx == [from |-> "SYSTEM", to |-> miner, amount |-> mining_reward]
           txs == Append(SubSeq(mp, 1, Min(block_capacity, Len(mp))), reward_tx)
       IN  last' = [last EXCEPT !.req[r] = [pc |-> "taken", txs |-> txs]]
    /\ UNCHANGED <<chain, mempool, nodes, clock>>

\* new_block = Block(len(self.chain), self.get_latest_block().hash, txs)
Build(r) ==
    /\ last.req[r].pc = "taken"
    /\ LET c == chain["n1"]
           new_block == Block(Len(c), get_latest_block(c).hash,
                              last.req[r].txs, clock["n1"])
       IN  last' = [last EXCEPT !.req[r] =
                       [pc |-> "built", txs |-> last.req[r].txs,
                        new_block |-> new_block]]
    /\ UNCHANGED <<chain, mempool, nodes, clock>>

\* new_block.mine_block(self.difficulty); the search takes time
Search(r) ==
    /\ last.req[r].pc = "built"
    /\ last' = [last EXCEPT !.req[r] =
                   [pc |-> "mined", txs |-> last.req[r].txs,
                    new_block |-> Block_mine_block(last.req[r].new_block,
                                                   difficulty)]]
    /\ clock' = [m \in Node |-> clock[m] + 1]
    /\ UNCHANGED <<chain, mempool, nodes>>

\* self.chain.append(new_block)
AppendBlock(r) ==
    /\ last.req[r].pc = "mined"
    /\ chain' = [chain EXCEPT !["n1"] = Append(@, last.req[r].new_block)]
    /\ last' = [last EXCEPT !.req[r].pc = "appended"]
    /\ UNCHANGED <<mempool, nodes, clock>>

\* the mempool is rebuilt without the transactions of txs, and the request
\* returns (no peer is registered: nothing is posted)
PruneMempool(r) ==
    /\ last.req[r].pc = "appended"
    /\ mempool' = [mempool EXCEPT !["n1"] = Prune(@, last.req[r].txs)]
    /\ last' = [last EXCEPT !.req[r] = [pc |-> "idle"]]
    /\ UNCHANGED <<chain, nodes, clock>>

NextRace ==
    \/ \E tx \in NetTx : Submit(tx)
    \/ \E r \in Request : Take(r, "bob")
    \/ \E r \in Request : Build(r)
    \/ \E r \in Request : Search(r)
    \/ \E r \in Request : AppendBlock(r)
    \/ \E r \in Request : PruneMempool(r)

SpecRace == InitRace /\ [][NextRace]_vars

\* C19 as stated: when two mine requests on one node overlap, the chain
\* still has sequential indices and every block names the hash of the block
\* before it: two blocks built on the same head are never both appended.
C19_AsStated ==
    \A i \in 2..Len(chain["n1"]) :
        /\ chain["n1"][i].index = i - 1
        /\ chain["n1"][i].previous_hash = chain["n1"][i - 1].hash

(***************************************************************************)
(* Block.mine_block round by round, on a block as Block.__init__ leaves    *)
(* it (SpecSearch).  last holds the block at entry (pre), the block as it  *)
(* is now, and whether the loop has been left (pc).                        *)
(***************************************************************************)
\* the greatest difficulty a search is started with
MaxDifficulty == 1

\* a block is constructed and Block.mine_block(d) is entered
StartSearch(index, transactions, timestamp, d) ==
    /\ LET b == Block(index, ZeroHash, transactions, timestamp)
       IN  last' = [op |-> "Block.mine_block", arg |-> d, pre |-> b,
                    block |-> b, pc |-> "loop"]
    /\ UNCHANGED <<chain, mempool, nodes, clock>>

\* the loop condition is tested: one more round, or the method returns
SearchStep ==
    /\ last.op = "Block.mine_block" /\ last.pc = "loop"
    /\ last' = IF Prefix(last.block.hash, last.arg) # 0
               THEN [last EXCEPT !.block = NonceStep(last.block)]
               ELSE [last EXCEPT !.pc = "done"]
    /\ UNCHANGED <<chain, mempool, nodes, clock>>

NextSearch ==
    \/ \E index \in 0..2, timestamp \in 1..2, d \in 0..MaxDifficulty :
           \E transactions \in {<<genesis_tx>>, <<genesis_tx, genesis_tx>>} :
               StartSearch(index, transactions, timestamp, d)
    \/ SearchStep

SpecSearch == InitLocal /\ [][NextSearch]_vars

\* C14: in every round of Block.mine_block the nonce does not decrease and
\* no field other than nonce and hash changes, and when the method returns
\* the stored hash is the hash recomputed from the block's fields, final
\* nonce included, and its first d hex characters are all '0'.
C14_SearchEndsOnTarget ==
    [][SearchStep =>
          /\ last'.block.nonce >= last.block.nonce
          /\ \A f \in {"index", "previous_hash", "timestamp", "transactions"} :
                 last'.block[f] = last.block[f]
          /\ last'.pc = "done" =>
                 /\ last'.block.hash = calculate_hash(last'.block)
                 /\ Prefix(last'.block.hash, last'.arg) = 0]_vars

\* a search returned after more than one round
C14_SearchedTwice ==
    /\ last.op = "Block.mine_block" /\ last.pc = "done"
    /\ last.arg = 1
    /\ last.block.nonce > last.pre.nonce + 1

(***************************************************************************)
(* Properties of the network with clocks that agree (SpecRival).           *)
(***************************************************************************)
\* C16 as stated: after any interleaving of add_transaction, mine with push,
\* and sync on two nodes, every node's chain passes is_chain_valid and gives
\* every address other than SYSTEM a balance that is not negative.
C16_AsStated ==
    \A n \in Node :
        /\ is_chain_valid(chain[n], chain[n])
        /\ \A a \in Addresses(chain[n]) \ {"SYSTEM"} :
               AmtLe(Zero, get_balance(chain[n], a))

(***************************************************************************)
(* is_chain_valid on a tampered copy of a mined chain (SpecAudit).         *)
(***************************************************************************)
\* a digest that is the hash of no block of the model
OtherHash == [literal |-> "f"]

\* chain c with one field of block i altered: its previous_hash replaced,
\* its timestamp set to its predecessor's, or the amount of its transaction
\* j made negative; the block's stored hash is recomputed or left as it was
Tampered(c, i, field, j, rehash) ==
    LET b == c[i]
        t == CASE field = "previous_hash" -> [b EXCEPT !.previous_hash = OtherHash]
               [] field = "timestamp" -> [b EXCEPT !.timestamp = c[i - 1].timestamp]
               [] field = "amount" ->
                      [b EXCEPT !.transactions[j].amount = <<-5, 0>>]
    IN  [c EXCEPT ![i] = IF rehash THEN [t EXCEPT !.hash = calculate_hash(t)]
                         ELSE t]

\* is_chain_valid is asked about a tampered copy of the node's chain
Audit(n, i, field, j, rehash) ==
    /\ is_chain_valid(chain[n], chain[n])
    /\ field = "timestamp" => i > 1
    /\ LET c == Tampered(chain[n], i, field, j, rehash)
       IN  last' = Call("is_chain_valid", n,
                        [at |-> i, field |-> field, rehash |-> rehash, chain |-> c],
                        is_chain_valid(chain[n], c))
    /\ UNCHANGED <<chain, mempool, nodes, clock>>

NextAudit ==
    \/ \E i \in 1..Len(chain["n1"]) :
         \E field \in {"previous_hash", "timestamp", "amount"} :
           \E j \in 1..Len(chain["n1"][i].transactions), rehash \in BOOLEAN :
             Audit("n1", i, field, j, rehash)
    \/ \E tx \in NetTx : AddTransaction("n1", tx)
    \/ Mine("n1", "bob")

SpecAudit == InitLocal /\ [][NextAudit]_vars

\* C10 as stated: is_chain_valid is false for a valid chain (of any length,
\* one included) in which one block's previous_hash was altered, one block's
\* timestamp was made not greater than its predecessor's, or one amount was
\* made negative, whether or not the block's stored hash was recomputed.
C10_AsStated == last.op = "is_chain_valid" => last.ret = FALSE

=============================================================================
